---- MODULE Spec2Model ----
(***************************************************************************)
(* A model of gen_results_summary.py (xfstests-bld test appliance): the    *)
(* report generator that loads every results.xml below a directory,       *)
(* reconciles the header properties with the ltm-run-stats marker, prints  *)
(* one summary per test suite and optionally writes the combined archive.  *)
(*                                                                         *)
(* Text is modelled as sequences of one-character strings, so that the     *)
(* parsing and the formatting done by the code are computed, not assumed.  *)
(* Every out_f.write(...) call appends one chunk to the output.            *)
(***************************************************************************)
EXTENDS Integers, Sequences, FiniteSets, TLC

VARIABLES
    \* ---- a call of gen_results_summary (specification Spec)
    tz,          \* the time zone of the process environment
    pc,          \* position in gen_results_summary
    run,         \* number of calls started so far
    args,        \* the arguments and the results directory of the current call
    reports,     \* the loaded suites, in the order os.walk found them
    props,       \* the deep copy of reports[0]'s properties
    ltm,         \* the value check_for_ltm returned
    verbose,     \* the local 'verbose' of gen_results_summary
    queue,       \* the part of sorted(reports, key=sort_by) not yet printed
    combined,    \* the suites added to the JUnitXml 'combined'
    nr_files,    \* suites printed so far
    out,         \* the chunks written to the output target
    out_f,       \* the output handle: "stdout", "open" or "closed"
    exc,         \* the exception that ended the call, or "none"
    fs,          \* the archive paths: merge_fn, merge_fn.bak, merge_fn.new
    merging,     \* whether the merge step (lines 243-248) has begun
    old_archive, \* what merge_fn held when the merge step began
    new_archive, \* the archive the merge step writes
    merges,      \* history: the merges completed so far, oldest first
    \* ---- the property list operations (specification SpecProps)
    pl,          \* the property list
    pl_init,     \* the list the marker was first applied to
    pl_marker,   \* the lines of the marker file
    pl_once,     \* the list after the first application of the marker
    pl_n,        \* number of applications of the marker so far
    pl_key,      \* the name last given to remove_properties
    pl_before,   \* the list before the last remove_properties
    pl_op,       \* the last operation: "none", "remove" or "marker"
    \* ---- the summary of one suite (specification SpecSummary)
    ps_suite,    \* the suite given to print_summary
    ps_verbose,  \* the verbose flag given to print_summary
    ps_out,      \* the chunks print_summary wrote
    ps_done      \* whether print_summary has run

callvars == <<tz, pc, run, args, reports, props, ltm, verbose, queue,
              combined, nr_files, out, out_f, exc, fs, merging, old_archive,
              new_archive, merges>>
plvars == <<pl, pl_init, pl_marker, pl_once, pl_n, pl_key, pl_before, pl_op>>
psvars == <<ps_suite, ps_verbose, ps_out, ps_done>>
vars == <<callvars, plvars, psvars>>

(***************************************************************************)
(* Bounds of the model.                                                    *)
(***************************************************************************)
MaxProps == 3        \* longest property list drawn in SpecProps
MaxMarkerLines == 2  \* most lines of a marker file
MaxSuites == 2       \* most suites loaded by one call
MaxRuns == 2         \* calls of gen_results_summary in one behaviour
MaxCases == 4        \* most test cases of the suite drawn in SpecSummary

(***************************************************************************)
(* Text helpers.                                                           *)
(***************************************************************************)
\* The characters the model uses, in ASCII order (Python 2 str comparison
\* is byte-wise).
Alphabet == <<"\n", " ", "\"", "-", "/", "0", "1", "2", "3", "4", "5", "6", "7",
              "8", "9", ":", "A", "B", "C", "D", "E", "F", "G", "H", "I", "J",
              "K", "L", "M", "N", "O", "P", "Q", "R", "S", "T", "U", "V", "W",
              "X", "Y", "Z", "a", "b", "c", "d", "e", "f", "g", "h", "i", "j",
              "k", "l", "m", "n", "o", "p", "q", "r", "s", "t", "u", "v", "w",
              "x", "y", "z">>

Ord(c) == CHOOSE i \in 1..Len(Alphabet) : Alphabet[i] = c

\* s < t for two strings, as Python compares them.
RECURSIVE StrLess(_, _)
StrLess(s, t) ==
    IF t = <<>> THEN FALSE
    ELSE IF s = <<>> THEN TRUE
    ELSE IF Head(s) = Head(t) THEN StrLess(Tail(s), Tail(t))
    ELSE Ord(Head(s)) < Ord(Head(t))

\* n copies of the character c.
Rep(c, n) == [i \in 1..n |-> c]

Digits == <<"0", "1", "2", "3", "4", "5", "6", "7", "8", "9">>

\* '%d' % n for n >= 0.
RECURSIVE FmtD(_)
FmtD(n) == IF n < 10 THEN <<Digits[n + 1]>>
           ELSE FmtD(n \div 10) \o <<Digits[(n % 10) + 1]>>

\* '%-Ns' % s: s padded with blanks on the right to at least n columns.
PadRight(s, n) == IF Len(s) >= n THEN s ELSE s \o Rep(" ", n - Len(s))

\* s.rstrip(c) and s.strip(c) for a one-character c.
RECURSIVE RStrip(_, _)
RStrip(s, c) == IF s # <<>> /\ s[Len(s)] = c
                THEN RStrip(SubSeq(s, 1, Len(s) - 1), c) ELSE s

RECURSIVE LStrip(_, _)
LStrip(s, c) == IF s # <<>> /\ Head(s) = c THEN LStrip(Tail(s), c) ELSE s

Strip(s, c) == LStrip(RStrip(s, c), c)

DropAt(s, i) == SubSeq(s, 1, i - 1) \o SubSeq(s, i + 1, Len(s))

(***************************************************************************)
(* Properties.  A property collection is None (the element has no          *)
(* <properties> child) or the ordered list of its [name, value] entries:   *)
(* [none, items].                                                          *)
(***************************************************************************)
Property(name, value) == [name |-> name, value |-> value]

None == [none |-> TRUE, items |-> <<>>]

Properties(items) == [none |-> FALSE, items |-> items]

K_TESTRUNID == <<"T", "E", "S", "T", "R", "U", "N", "I", "D">>
K_KERNEL == <<"K", "E", "R", "N", "E", "L">>
K_CMDLINE == <<"C", "M", "D", "L", "I", "N", "E">>
K_CPUS == <<"C", "P", "U", "S">>
K_MEM == <<"M", "E", "M">>
K_MNTOPTS == <<"M", "N", "T", "O", "P", "T", "S">>
K_FSTESTIMG == <<"F", "S", "T", "E", "S", "T", "I", "M", "G">>
K_FSTESTPRJ == <<"F", "S", "T", "E", "S", "T", "P", "R", "J">>
K_FSTESTVER == <<"F", "S", "T", "E", "S", "T", "V", "E", "R">>
K_FSTESTCFG == <<"F", "S", "T", "E", "S", "T", "C", "F", "G">>
K_FSTESTSET == <<"F", "S", "T", "E", "S", "T", "S", "E", "T">>
K_FSTESTEXC == <<"F", "S", "T", "E", "S", "T", "E", "X", "C">>
K_FSTESTOPT == <<"F", "S", "T", "E", "S", "T", "O", "P", "T">>
K_GCE_ID == <<"G", "C", "E", " ", "I", "D">>
K_TESTCFG == <<"T", "E", "S", "T", "C", "F", "G">>

\* A value handed back by a lookup is [none, value]; value is '%s' % None
\* when none is TRUE.
NoneText == <<"N", "o", "n", "e">>

NoneValue == [none |-> TRUE, value |-> NoneText]

\* get_property: the value of the first entry named key, or None; None too
\* when props itself is None (lines 40-41).
get_property(pr, key) ==
    LET ps == pr.items IN
    IF ~pr.none /\ \E i \in 1..Len(ps) : ps[i].name = key
    THEN [none |-> FALSE,
          value |-> ps[CHOOSE i \in 1..Len(ps) :
                           /\ ps[i].name = key
                           /\ \A j \in 1..(i - 1) : ps[j].name # key].value]
    ELSE NoneValue

\* The values of the entries named key, in list order (lines 51-53).
RECURSIVE ValuesOf(_, _)
ValuesOf(ps, key) ==
    IF ps = <<>> THEN <<>>
    ELSE (IF Head(ps).name = key
          THEN <<[none |-> FALSE, value |-> Head(ps).value]>> ELSE <<>>)
         \o ValuesOf(Tail(ps), key)

\* get_properties: [values, raised], the values the generator yields and
\* whether it then raises.  When props is None it yields None (line 50) and,
\* having no return there, goes on to 'for prop in props', which raises
\* TypeError.
get_properties(pr, key) ==
    IF pr.none THEN [values |-> <<NoneValue>>, raised |-> TRUE]
    ELSE [values |-> ValuesOf(pr.items, key), raised |-> FALSE]

\* props.remove(prop), called at line 61.  The element's children are walked
\* by position while every child equal to prop (same name and value) is
\* removed in place, so the child that slides into a freed position is not
\* looked at.
RECURSIVE ElementRemove(_, _, _)
ElementRemove(ps, prop, j) ==
    IF j > Len(ps) THEN ps
    ELSE IF ps[j] = prop THEN ElementRemove(DropAt(ps, j), prop, j + 1)
    ELSE ElementRemove(ps, prop, j + 1)

\* The loop of remove_properties from position i on: 'for prop in props'
\* walks the same list by position while the body removes from it.
RECURSIVE RemoveLoop(_, _, _)
RemoveLoop(ps, key, i) ==
    IF i > Len(ps) THEN ps
    ELSE IF ps[i].name = key
         THEN RemoveLoop(ElementRemove(ps, ps[i], 1), key, i + 1)
         ELSE RemoveLoop(ps, key, i + 1)

\* remove_properties: nothing to do when props is None (lines 57-58).
remove_properties(pr, key) ==
    IF pr.none THEN pr
    ELSE Properties(RemoveLoop(pr.items, key, 1))

(***************************************************************************)
(* The marker file ltm-run-stats.                                          *)
(***************************************************************************)
\* line.split(': ', 1): the position of the first ': ', if any.
SepAt(line, i) == i + 1 <= Len(line) /\ line[i] = ":" /\ line[i + 1] = " "

HasSep(line) == \E i \in 1..Len(line) : SepAt(line, i)

SepPos(line) == CHOOSE i \in 1..Len(line) :
                    SepAt(line, i) /\ \A j \in 1..(i - 1) : ~SepAt(line, j)

SplitKey(line) == SubSeq(line, 1, SepPos(line) - 1)

\* value.rstrip('\n').strip('"') of the part after the separator.
SplitValue(line) ==
    Strip(RStrip(SubSeq(line, SepPos(line) + 2, Len(line)), "\n"), "\"")

\* Lines 193-194 for a line that splits: [exc, props].  With props None,
\* remove_properties returns and props.add_property raises AttributeError.
MarkerLine(pr, line) ==
    IF pr.none THEN [exc |-> "AttributeError", props |-> pr]
    ELSE [exc |-> "none",
          props |-> Properties(
                        Append(remove_properties(pr, SplitKey(line)).items,
                               Property(SplitKey(line), SplitValue(line))))]

\* A check_for_ltm that skips the lines it cannot split instead of raising.
RECURSIVE MarkerLoopSkipBad(_, _)
MarkerLoopSkipBad(pr, lines) ==
    IF lines = <<>> THEN [exc |-> "none", props |-> pr]
    ELSE IF ~HasSep(Head(lines)) THEN MarkerLoopSkipBad(pr, Tail(lines))
    ELSE LET r == MarkerLine(pr, Head(lines)) IN
         IF r.exc # "none" THEN r
         ELSE MarkerLoopSkipBad(r.props, Tail(lines))

\* The loop of check_for_ltm over the lines of the marker: [exc, props].  A
\* line without ': ' makes the unpacking at line 191 raise ValueError, which
\* the 'except IOError' does not catch.
RECURSIVE MarkerLoop(_, _)
MarkerLoop(pr, lines) ==
    IF lines = <<>> THEN [exc |-> "none", props |-> pr]
    ELSE IF ~HasSep(Head(lines)) THEN [exc |-> "ValueError", props |-> pr]
    ELSE LET r == MarkerLine(pr, Head(lines)) IN
         IF r.exc # "none" THEN r
         ELSE MarkerLoop(r.props, Tail(lines))

\* check_for_ltm(results_dir, props): marker is [present, lines]; the result
\* is [exc, ltm, props], exc being the exception that leaves the function.
check_for_ltm(marker, pr) ==
    IF ~marker.present
    THEN [exc |-> "none", ltm |-> FALSE, props |-> pr]
    ELSE LET r == MarkerLoop(pr, marker.lines) IN
         IF r.exc # "none"
         THEN [exc |-> r.exc, ltm |-> FALSE, props |-> r.props]
         ELSE [exc |-> "none", ltm |-> TRUE,
               props |-> remove_properties(
                             remove_properties(r.props, K_GCE_ID), K_FSTESTCFG)]

(***************************************************************************)
(* Timestamps.  Instants are counted in whole hours from 1970-01-01T00:00  *)
(* UTC plus the seconds within the hour (the offsets of the zones modelled *)
(* are whole hours): mktime's result is 3600 * hours + rem.                *)
(***************************************************************************)
IsDigit(c) == c \in {"0", "1", "2", "3", "4", "5", "6", "7", "8", "9"}

DigitVal(c) == CHOOSE d \in 0..9 : Digits[d + 1] = c

\* The number of leading digits of s, at most w.
RECURSIVE DigitRun(_, _)
DigitRun(s, w) == IF w = 0 \/ s = <<>> \/ ~IsDigit(Head(s)) THEN 0
                  ELSE 1 + DigitRun(Tail(s), w - 1)

RECURSIVE NumVal(_)
NumVal(s) == IF s = <<>> THEN 0
             ELSE 10 * NumVal(SubSeq(s, 1, Len(s) - 1)) + DigitVal(s[Len(s)])

\* One numeric directive of strptime at the head of s: between lo and hi
\* digits, the value within vmin..vmax, followed by one of the characters
\* seps (or by the end of the text when seps is empty).  With pad, the
\* directive also takes a blank followed by one digit from 1 to 9 (%d).
Field(s, lo, hi, vmin, vmax, pad, seps) ==
    LET blank == pad /\ Len(s) >= 2 /\ s[1] = " " /\ IsDigit(s[2]) /\ s[2] # "0"
        body == IF blank THEN Tail(s) ELSE s
        n == IF blank THEN 1 ELSE DigitRun(body, hi)
        v == NumVal(SubSeq(body, 1, n))
        rest == SubSeq(body, n + 1, Len(body))
        sepok == IF seps = {} THEN rest = <<>>
                 ELSE rest # <<>> /\ Head(rest) \in seps
    IN IF n >= lo /\ v >= vmin /\ v <= vmax /\ sepok
       THEN [ok |-> TRUE, val |-> v,
             rest |-> IF seps = {} THEN <<>> ELSE Tail(rest)]
       ELSE [ok |-> FALSE, val |-> 0, rest |-> <<>>]

IsLeap(y) == (y % 4 = 0 /\ y % 100 # 0) \/ y % 400 = 0

DaysInMonth(y, m) == IF m = 2 THEN (IF IsLeap(y) THEN 29 ELSE 28)
                     ELSE IF m \in {4, 6, 9, 11} THEN 30 ELSE 31

\* Days from 1970-01-01 to the civil date y-m-d.
DaysFromCivil(y, m, d) ==
    LET yy == IF m <= 2 THEN y - 1 ELSE y
        era == yy \div 400
        yoe == yy - era * 400
        mp == IF m > 2 THEN m - 3 ELSE m + 9
        doy == (153 * mp + 2) \div 5 + d - 1
        doe == yoe * 365 + yoe \div 4 - yoe \div 100 + doy
    IN era * 146097 + doe - 719468

\* datetime.strptime(timestamp, '%Y-%m-%dT%H:%M:%S'): [ok, year, ..., second];
\* ok is FALSE where it raises ValueError.  The pattern is matched without
\* regard to case, so the literal T may be a 't'; seconds 60 and 61 pass the
\* directive and are refused by datetime, as are year 0 and a day the month
\* does not have.
strptime(timestamp) ==
    LET fy == Field(timestamp, 4, 4, 0, 9999, FALSE, {"-"})
        fm == Field(fy.rest, 1, 2, 1, 12, FALSE, {"-"})
        fd == Field(fm.rest, 1, 2, 1, 31, TRUE, {"T", "t"})
        fh == Field(fd.rest, 1, 2, 0, 23, FALSE, {":"})
        fi == Field(fh.rest, 1, 2, 0, 59, FALSE, {":"})
        fsec == Field(fi.rest, 1, 2, 0, 61, FALSE, {})
    IN IF /\ fy.ok /\ fm.ok /\ fd.ok /\ fh.ok /\ fi.ok /\ fsec.ok
          /\ fy.val >= 1
          /\ fd.val <= DaysInMonth(fy.val, fm.val)
          /\ fsec.val <= 59
       THEN [ok |-> TRUE, year |-> fy.val, month |-> fm.val, day |-> fd.val,
             hour |-> fh.val, minute |-> fi.val, second |-> fsec.val]
       ELSE [ok |-> FALSE, year |-> 0, month |-> 0, day |-> 0,
             hour |-> 0, minute |-> 0, second |-> 0]

\* The time zones drawn for the process environment (TZ).
Zones == {"UTC", "America/New_York"}

\* 0 for Sunday to 6 for Saturday, of a day counted from 1970-01-01.
DayOfWeek(days) == (days + 4) % 7

\* The first Sunday on or after y-m-d, and the last Sunday of month m.
SundayOnOrAfter(y, m, d) ==
    LET n == DaysFromCivil(y, m, d) IN n + ((7 - DayOfWeek(n)) % 7)

LastSunday(y, m) ==
    LET n == DaysFromCivil(y, m, DaysInMonth(y, m)) IN n - DayOfWeek(n)

\* Daylight saving time of year y in America/New_York: [has, first, last],
\* the days on which it starts and ends, both at 02:00 local time.  The
\* years 1942 to 1945 are those of WarTime.
DstDays(y) ==
    IF y >= 2007
    THEN [has |-> TRUE, first |-> SundayOnOrAfter(y, 3, 8),
          last |-> SundayOnOrAfter(y, 11, 1)]
    ELSE IF y >= 1987
    THEN [has |-> TRUE, first |-> SundayOnOrAfter(y, 4, 1),
          last |-> LastSunday(y, 10)]
    ELSE IF y >= 1976
    THEN [has |-> TRUE, first |-> LastSunday(y, 4), last |-> LastSunday(y, 10)]
    ELSE IF y = 1975
    THEN [has |-> TRUE, first |-> DaysFromCivil(1975, 2, 23),
          last |-> LastSunday(y, 10)]
    ELSE IF y = 1974
    THEN [has |-> TRUE, first |-> DaysFromCivil(1974, 1, 6),
          last |-> LastSunday(y, 10)]
    ELSE IF y >= 1955
    THEN [has |-> TRUE, first |-> LastSunday(y, 4), last |-> LastSunday(y, 10)]
    ELSE IF y >= 1946
    THEN [has |-> TRUE, first |-> LastSunday(y, 4), last |-> LastSunday(y, 9)]
    ELSE IF y >= 1942
    THEN [has |-> FALSE, first |-> 0, last |-> 0]
    ELSE IF y >= 1921
    THEN [has |-> TRUE, first |-> LastSunday(y, 4), last |-> LastSunday(y, 9)]
    ELSE IF y >= 1918
    THEN [has |-> TRUE, first |-> LastSunday(y, 3), last |-> LastSunday(y, 10)]
    ELSE [has |-> FALSE, first |-> 0, last |-> 0]

\* 1942-02-09 02:00 EST to 1945-09-30 02:00 EDT, the clocks one hour ahead.
WarTime(h) ==
    /\ h >= DaysFromCivil(1942, 2, 9) * 24 + 7
    /\ h < DaysFromCivil(1945, 9, 30) * 24 + 6

\* Whether the instant h lies between 02:00 EST of the first day of r and
\* 02:00 EDT of its last day.
InDst(r, h) == r.has /\ h >= r.first * 24 + 7 /\ h < r.last * 24 + 6

\* Whether daylight saving time is in force in America/New_York at the
\* instant h, which lies within a day of year y.
IsDst(h, y) ==
    \/ WarTime(h)
    \/ \E yy \in {y - 1, y, y + 1} : InDst(DstDays(yy), h)

\* The offset from UTC, in hours, of the zone at the instant h.
UtcOffset(zone, h, y) ==
    IF zone = "UTC" THEN 0 ELSE IF IsDst(h, y) THEN -4 ELSE -5

\* The probing loop of the C library's mktime, tm_isdst being -1.  local
\* is the local time asked for, counted as if it were UTC; t is the instant
\* probed, t1 and t2 those probed two and one rounds before, dst2 whether
\* t2 was in daylight saving time.  From the instant t the loop goes to gt,
\* the instant that would show the local time asked for were the offset the
\* one in force at t.  It ends when t shows that local time (gt = t), or
\* when it alternates between two instants, which happens for a local time
\* the clocks skip: it then settles on the instant in daylight saving time.
\* The loop allows itself six probes; the zones modelled need fewer.
RECURSIVE Probe(_, _, _, _, _, _, _)
ProbeStep(zone, local, y, t, t1, t2, dst2, gt, dst) ==
    IF gt = t THEN t
    ELSE IF t = t1 /\ t # t2 /\ (dst2 => dst) THEN t
    ELSE Probe(zone, local, y, gt, t2, t, dst)

Probe(zone, local, y, t, t1, t2, dst2) ==
    ProbeStep(zone, local, y, t, t1, t2, dst2,
              local - UtcOffset(zone, t, y), UtcOffset(zone, t, y) = -4)

\* The year mktime works with: a year below 1900 is taken as a two-digit
\* year, 1 to 68 as 2001 to 2068 and 69 to 99 as 1969 to 1999.
FullYear(year) ==
    IF year >= 1900 THEN year
    ELSE IF year <= 68 THEN year + 2000 ELSE year + 1900

\* The local time of a time tuple in hours, counted as if it were UTC.
LocalHours(tt) ==
    DaysFromCivil(FullYear(tt.year), tt.month, tt.day) * 24 + tt.hour

MkResult(tt, local, t) ==
    [ok |-> TRUE, hours |-> t, rem |-> tt.minute * 60 + tt.second,
     offset |-> t - local]

\* time.mktime of a time tuple whose tm_isdst is -1: [ok, hours, rem, offset].
\* A year from 100 to 1899 is refused with ValueError.  The C library starts
\* its probing from the offset it found in its previous conversion (guess, 0
\* in a new process), so that a local time that occurs twice resolves to the
\* occurrence the remembered offset points at.
mktime(tt, zone, guess) ==
    IF tt.year < 1900 /\ tt.year > 99
    THEN [ok |-> FALSE, hours |-> 0, rem |-> 0, offset |-> guess]
    ELSE MkResult(tt, LocalHours(tt),
                  Probe(zone, LocalHours(tt), FullYear(tt.year),
                        LocalHours(tt) + guess, LocalHours(tt) + guess,
                        LocalHours(tt) + guess, FALSE))

MkTimeOf(tt, zone, guess) ==
    IF tt.ok THEN mktime(tt, zone, guess)
    ELSE [ok |-> FALSE, hours |-> 0, rem |-> 0, offset |-> guess]

\* parse_timestamp: [ok, hours, rem, offset]; ok is FALSE where strptime or
\* mktime raises ValueError.
parse_timestamp(timestamp, zone, guess) ==
    MkTimeOf(strptime(timestamp), zone, guess)

(***************************************************************************)
(* Test cases and test suites.  A case is [name, result, time] with result *)
(* "Pass", "Failure", "Error" or "Skipped".  A suite carries the counters   *)
(* of its record (the code never recomputes them from the cases).          *)
(***************************************************************************)
T_Tests == <<" ", "t", "e", "s", "t", "s", ",", " ">>
T_Failures == <<" ", "f", "a", "i", "l", "u", "r", "e", "s", ",", " ">>
T_Errors == <<" ", "e", "r", "r", "o", "r", "s", ",", " ">>
T_Skipped == <<" ", "s", "k", "i", "p", "p", "e", "d", ",", " ">>
T_Seconds == <<" ", "s", "e", "c", "o", "n", "d", "s", "\n">>
T_Totals == <<"T", "o", "t", "a", "l", "s", ":", " ">>
L_Failures == <<"F", "a", "i", "l", "u", "r", "e", "s">>
L_Errors == <<"E", "r", "r", "o", "r", "s">>
S_Pass == <<"P", "a", "s", "s">>
S_Failed == <<"F", "a", "i", "l", "e", "d">>
S_Skipped == <<"S", "k", "i", "p", "p", "e", "d">>
S_Error == <<"E", "r", "r", "o", "r">>
NewlineIndent == <<"\n", " ", " ", " ", " ">>

WrapColumn == 76
VerboseLimit == 30

\* The loop of print_tests over the cases, with its locals found and pos;
\* the result is the sequence of chunks written.
RECURSIVE PrintTestsLoop(_, _, _, _, _)
PrintTestsLoop(cases, result_type, type_label, found, pos) ==
    IF cases = <<>> THEN (IF found THEN << <<"\n">> >> ELSE <<>>)
    ELSE IF Head(cases).result # result_type
    THEN PrintTestsLoop(Tail(cases), result_type, type_label, found, pos)
    ELSE LET name == Head(cases).name
             label == IF found THEN <<>>
                      ELSE << <<" ", " ">> \o type_label \o <<":", " ">> >>
             pos0 == IF found THEN pos ELSE Len(type_label) + 4
             name_len == Len(name) + 1
             pos1 == pos0 + name_len + 1
             wrap == pos1 > WrapColumn
             pos2 == IF wrap THEN name_len + 5 ELSE pos1
         IN label
            \o (IF wrap THEN <<NewlineIndent>> ELSE <<>>)
            \o << name \o <<" ">> >>
            \o PrintTestsLoop(Tail(cases), result_type, type_label, TRUE, pos2)

print_tests(testsuite, result_type, type_label) ==
    PrintTestsLoop(testsuite.cases, result_type, type_label, FALSE, 0)

\* A total_tests that counts the suites instead of their tests.
total_tests_count(testsuites) == Len(testsuites)

\* total_tests: the sum of the suites' tests counters.
RECURSIVE total_tests(_)
total_tests(testsuites) ==
    IF testsuites = <<>> THEN 0
    ELSE Head(testsuites).tests + total_tests(Tail(testsuites))

\* sum_testsuites: (tests, skipped, failures, errors, runtime).
RECURSIVE sum_testsuites(_)
sum_testsuites(testsuites) ==
    IF testsuites = <<>> THEN <<0, 0, 0, 0, 0>>
    ELSE LET t == Head(testsuites)
             r == sum_testsuites(Tail(testsuites))
         IN <<t.tests + r[1], t.skipped + r[2], t.failures + r[3],
              t.errors + r[4], t.time + r[5]>>

\* The status column of a verbose line (lines 135-141).
Status(test_case) ==
    IF test_case.result = "Error" THEN S_Error
    ELSE IF test_case.result = "Skipped" THEN S_Skipped
    ELSE IF test_case.result = "Failure" THEN S_Failed
    ELSE S_Pass

\* The verbose lines of print_summary (lines 134-143).
RECURSIVE VerboseLines(_)
VerboseLines(cases) ==
    IF cases = <<>> THEN <<>>
    ELSE << <<" ", " ">> \o PadRight(Head(cases).name, 12) \o <<" ">>
            \o PadRight(Status(Head(cases)), 8) \o <<" ">>
            \o FmtD(Head(cases).time) \o <<"s", "\n">> >>
         \o VerboseLines(Tail(cases))

\* The name lists of print_summary in compact mode (lines 145-148).
CompactLists(testsuite) ==
    IF testsuite.failures > 0
    THEN print_tests(testsuite, "Failure", L_Failures)
         \o (IF testsuite.errors > 0
             THEN print_tests(testsuite, "Error", L_Errors) ELSE <<>>)
    ELSE <<>>

\* testsuite.properties(): the entries of the suite, none when it has no
\* <properties> child.
properties(testsuite) ==
    IF testsuite.props.none THEN <<>> ELSE testsuite.props.items

\* print_summary: the chunks written for one suite.
print_summary(testsuite, verb) ==
    LET ps == Properties(properties(testsuite))
        c1 == get_property(ps, K_TESTCFG)
        cfg == IF c1.none THEN get_property(ps, K_FSTESTCFG) ELSE c1
    IN << cfg.value \o <<":", " ">> \o FmtD(testsuite.tests) \o T_Tests >>
       \o (IF testsuite.failures > 0
           THEN << FmtD(testsuite.failures) \o T_Failures >> ELSE <<>>)
       \o (IF testsuite.errors > 0
           THEN << FmtD(testsuite.errors) \o T_Errors >> ELSE <<>>)
       \o (IF testsuite.skipped > 0
           THEN << FmtD(testsuite.skipped) \o T_Skipped >> ELSE <<>>)
       \o << FmtD(testsuite.time) \o T_Seconds >>
       \o (IF verb THEN VerboseLines(testsuite.cases)
           ELSE CompactLists(testsuite))

\* print_property_line: '%-10s %s\n' % (key + ':', value), if there is one.
print_property_line(pr, key) ==
    LET v == get_property(pr, key)
    IN IF ~v.none /\ v.value # <<>>
       THEN << PadRight(key \o <<":">>, 10) \o <<" ">> \o v.value \o <<"\n">> >>
       ELSE <<>>

\* The body of the loop of print_properties, for each value yielded.
RECURSIVE PropertyLines(_, _)
PropertyLines(key, values) ==
    IF values = <<>> THEN <<>>
    ELSE << PadRight(key \o <<":">>, 10) \o <<" ">> \o Head(values).value
            \o <<"\n">> >>
         \o PropertyLines(key, Tail(values))

\* print_properties: [out, raised], one line per value of key, and whether
\* the generator raised after them.
print_properties(pr, key) ==
    LET g == get_properties(pr, key)
    IN [out |-> PropertyLines(key, g.values), raised |-> g.raised]

print_header(pr) ==
    print_property_line(pr, K_TESTRUNID)
    \o print_property_line(pr, K_KERNEL)
    \o print_property_line(pr, K_CMDLINE)
    \o print_property_line(pr, K_CPUS)
    \o print_property_line(pr, K_MEM)
    \o print_property_line(pr, K_MNTOPTS)
    \o << <<"\n">> >>

\* print_trailer: [out, raised]; the TypeError of print_properties ends it
\* after the FSTESTVER line.
print_trailer(pr) ==
    LET before == << <<"\n">> >>
                  \o print_property_line(pr, K_FSTESTIMG)
                  \o print_property_line(pr, K_FSTESTPRJ)
        vers == print_properties(pr, K_FSTESTVER)
    IN IF vers.raised THEN [out |-> before \o vers.out, raised |-> TRUE]
       ELSE [out |-> before \o vers.out
                     \o print_property_line(pr, K_FSTESTCFG)
                     \o print_property_line(pr, K_FSTESTSET)
                     \o print_property_line(pr, K_FSTESTEXC)
                     \o print_property_line(pr, K_FSTESTOPT)
                     \o print_property_line(pr, K_GCE_ID),
             raised |-> FALSE]

\* The totals line (lines 238-239).
TotalsLine(testsuites) ==
    LET t == sum_testsuites(testsuites)
    IN << T_Totals \o FmtD(t[1]) \o T_Tests \o FmtD(t[2]) \o T_Skipped
          \o FmtD(t[3]) \o T_Failures \o FmtD(t[4]) \o T_Errors
          \o FmtD(t[5]) \o <<"s", "\n">> >>

(***************************************************************************)
(* The order of the report (lines 226-233).                                *)
(***************************************************************************)
\* The key made of a parsed timestamp.
TimeKey(k) ==
    [str |-> FALSE, ok |-> k.ok, name |-> <<>>,
     hours |-> k.hours, rem |-> k.rem, offset |-> k.offset]

\* sort_by: the key of a suite, the hostname in LTM mode and the parsed
\* timestamp otherwise: [str, ok, name, hours, rem, offset].  ok is FALSE
\* where the key function raises; offset is the offset the C library
\* remembers after the call.
sort_by(l, ts, zone, guess) ==
    IF l THEN [str |-> TRUE, ok |-> TRUE, name |-> ts.hostname,
               hours |-> 0, rem |-> 0, offset |-> guess]
    ELSE TimeKey(parse_timestamp(ts.timestamp, zone, guess))

\* The keys sorted() computes, one call of the key function per suite in
\* list order.
RECURSIVE SortKeys(_, _, _, _)
SortKeysFrom(s, l, zone, k) == <<k>> \o SortKeys(Tail(s), l, zone, k.offset)

SortKeys(s, l, zone, guess) ==
    IF s = <<>> THEN <<>>
    ELSE SortKeysFrom(s, l, zone, sort_by(l, Head(s), zone, guess))

KeyLess(a, b) ==
    IF a.str THEN StrLess(a.name, b.name)
    ELSE a.hours < b.hours \/ (a.hours = b.hours /\ a.rem < b.rem)

\* sorted(reports, key=sort_by): a stable sort, here of the positions.
RECURSIVE InsertByKey(_, _, _)
InsertByKey(order, i, keys) ==
    IF order = <<>> THEN <<i>>
    ELSE IF KeyLess(keys[i], keys[Head(order)]) THEN <<i>> \o order
    ELSE <<Head(order)>> \o InsertByKey(Tail(order), i, keys)

RECURSIVE SortedPositions(_, _)
SortedPositions(n, keys) ==
    IF n = 0 THEN <<>>
    ELSE InsertByKey(SortedPositions(n - 1, keys), n, keys)

\* The process has made no conversion before, so the first key is computed
\* from the remembered offset 0.
InOrder(s, order) == [j \in 1..Len(s) |-> s[order[j]]]

SortedReports(s, l, zone) ==
    InOrder(s, SortedPositions(Len(s), SortKeys(s, l, zone, 0)))

\* Whether computing the keys raises ValueError.
SortRaises(s, l, zone) ==
    \E i \in 1..Len(s) : ~SortKeys(s, l, zone, 0)[i].ok

(***************************************************************************)
(* The archive paths.  A path is absent, or holds a partially written      *)
(* file, or a complete archive with the ids of its suites.                 *)
(***************************************************************************)
Absent == [kind |-> "absent", suites |-> <<>>]
Partial == [kind |-> "partial", suites |-> <<>>]
Complete(ids) == [kind |-> "complete", suites |-> ids]

RECURSIVE SuiteIds(_)
SuiteIds(s) == IF s = <<>> THEN <<>> ELSE <<Head(s).id>> \o SuiteIds(Tail(s))

(***************************************************************************)
(* The inputs drawn by the model.                                          *)
(***************************************************************************)
\* 02:30 on the day the clocks of America/New_York go from 02:00 to 03:00.
TS_Skipped == <<"2", "0", "2", "1", "-", "0", "3", "-", "1", "4", "T", "0", "2", ":", "3", "0", ":", "0", "0">>
TS_After == <<"2", "0", "2", "1", "-", "0", "3", "-", "1", "4", "T", "0", "3", ":", "1", "5", ":", "0", "0">>
TS_Year50 == <<"0", "0", "5", "0", "-", "0", "1", "-", "0", "1", "T", "0", "0", ":", "0", "0", ":", "0", "0">>
TS_Bad == <<"2", "0", "2", "0", "-", "1", "3", "-", "0", "1", "T", "0", "0", ":", "0", "0", ":", "0", "0">>
H_vm1 == <<"v", "m", "1">>
H_vm2 == <<"v", "m", "2">>
H_vm3 == <<"v", "m", "3">>
V_4k == <<"4", "k">>
V_1k == <<"1", "k">>
N_g1 == <<"g", "/", "1">>
N_g2 == <<"g", "/", "2">>
N_g3 == <<"g", "/", "3">>
Line_Kv == <<"K", ":", " ", "\"", "v", "\"", "\n">>
Line_Kw == <<"K", ":", " ", "\"", "w", "\"", "\n">>
Line_Gce == <<"G", "C", "E", " ", "I", "D", ":", " ", "\"", "g", "\"", "\n">>
Line_Run == <<"T", "E", "S", "T", "R", "U", "N", "I", "D", ":", " ", "\"", "r", "9", "\"", "\n">>
Line_Bad == <<"b", "a", "d", "\n">>

Case(name, result, time) == [name |-> name, result |-> result, time |-> time]

Suite1 ==
    [id |-> "s1", hostname |-> H_vm2, timestamp |-> TS_Skipped, time |-> 5,
     tests |-> 10, skipped |-> 1, failures |-> 1, errors |-> 0,
     props |-> Properties(<<Property(K_TESTRUNID, <<"r", "1">>),
                             Property(K_FSTESTCFG, V_4k),
                             Property(K_FSTESTVER, <<"x">>),
                             Property(K_FSTESTVER, <<"y">>),
                             Property(K_GCE_ID, <<"g", "1">>)>>),
     cases |-> <<Case(N_g1, "Pass", 2), Case(N_g2, "Failure", 3),
                 Case(N_g3, "Skipped", 0)>>]

Suite2 ==
    [id |-> "s2", hostname |-> H_vm1, timestamp |-> TS_After, time |-> 12,
     tests |-> 20, skipped |-> 0, failures |-> 0, errors |-> 1,
     props |-> Properties(<<Property(K_TESTCFG, V_1k),
                             Property(K_FSTESTCFG, V_1k)>>),
     cases |-> <<Case(N_g1, "Error", 7), Case(N_g2, "Pass", 5)>>]

Suite3 ==
    [id |-> "s3", hostname |-> H_vm3, timestamp |-> TS_Year50, time |-> 40,
     tests |-> 30, skipped |-> 0, failures |-> 1, errors |-> 1,
     props |-> Properties(<<Property(K_FSTESTCFG, <<"d", "a", "x">>)>>),
     cases |-> <<Case(N_g1, "Failure", 20), Case(N_g3, "Error", 20)>>]

Suite4 ==
    [id |-> "s4", hostname |-> H_vm2, timestamp |-> TS_Bad, time |-> 1,
     tests |-> 1, skipped |-> 0, failures |-> 0, errors |-> 0,
     props |-> None,
     cases |-> <<Case(N_g1, "Pass", 1)>>]

Suites == {Suite1, Suite2, Suite3, Suite4}

SuiteById(i) == CHOOSE t \in Suites : t.id = i

SeqsUpTo(S, n) == UNION {[1..k -> S] : k \in 0..n}

Injective(s) == \A i, j \in 1..Len(s) : i # j => s[i] # s[j]

\* What get_results and JUnitXml.fromfile can return for a results directory.
SuiteSeqs == {s \in SeqsUpTo(Suites, MaxSuites) : Injective(s)}

MarkerLines == {Line_Run, Line_Bad}

Markers == {[present |-> FALSE, lines |-> <<>>]}
           \cup {[present |-> TRUE, lines |-> l] :
                     l \in SeqsUpTo(MarkerLines, MaxMarkerLines)}

\* The archive paths before the first call.

InitialFs == {[canon |-> c, bak |-> b, new |-> Absent] :
                  c \in {Absent, Complete(<<"s0">>)},
                  b \in {Absent, Complete(<<"s9">>)}}

(***************************************************************************)
(* gen_results_summary, one action per step.                               *)
(***************************************************************************)
Running == {"open", "ltm", "header", "sort", "suites", "trailer",
            "merge_write", "merge_writing", "merge_exists", "merge_rename",
            "return"}

Finished == {"done", "raised", "crashed"}

\* Lines 203-215: the call, the loading of the reports, and 'return 0' when
\* there is none.
Call(suites, marker, output_fn, merge_fn, verb) ==
    /\ pc = "idle"
    /\ run' = run + 1
    /\ args' = [suites |-> suites, marker |-> marker, output_fn |-> output_fn,
                merge_fn |-> merge_fn, verbose |-> verb, fs0 |-> fs]
    /\ reports' = suites
    /\ combined' = <<>>
    /\ nr_files' = 0
    /\ out_f' = "stdout"
    /\ out' = <<>>
    /\ props' = None
    /\ ltm' = FALSE
    /\ verbose' = verb
    /\ queue' = <<>>
    /\ exc' = "none"
    /\ merging' = FALSE
    /\ old_archive' = Absent
    /\ new_archive' = Absent
    /\ pc' = IF Len(suites) = 0 THEN "done" ELSE "open"
    /\ UNCHANGED <<tz, fs, merges, plvars, psvars>>

\* Lines 217-218.
OpenOutput ==
    /\ pc = "open"
    /\ out_f' = IF args.output_fn THEN "open" ELSE out_f
    /\ pc' = "ltm"
    /\ UNCHANGED <<tz, run, args, reports, props, ltm, verbose, queue, combined,
                   nr_files, out, exc, fs, merging, old_archive, new_archive,
                   merges, plvars, psvars>>

\* Lines 220-222: the deep copy of the first report's properties and
\* check_for_ltm on it.
CheckForLtm ==
    /\ pc = "ltm"
    /\ LET r == check_for_ltm(args.marker, reports[1].props)
       IN /\ props' = r.props
          /\ ltm' = r.ltm
          /\ exc' = r.exc
          /\ pc' = IF r.exc # "none" THEN "raised" ELSE "header"
    /\ UNCHANGED <<tz, run, args, reports, verbose, queue, combined, nr_files, out,
                   out_f, fs, merging, old_archive, new_archive, merges,
                   plvars, psvars>>

\* Line 224.
PrintHeader ==
    /\ pc = "header"
    /\ out' = out \o print_header(props)
    /\ pc' = "sort"
    /\ UNCHANGED <<tz, run, args, reports, props, ltm, verbose, queue, combined,
                   nr_files, out_f, exc, fs, merging, old_archive, new_archive,
                   merges, plvars, psvars>>

\* Lines 226-233: the sort key, the forcing of verbose, and sorted().
SortSuites ==
    /\ pc = "sort"
    /\ verbose' = IF total_tests(reports) < VerboseLimit THEN TRUE ELSE verbose
    /\ IF ~ltm /\ SortRaises(reports, ltm, tz)
       THEN /\ exc' = "ValueError"
            /\ pc' = "raised"
            /\ queue' = queue
       ELSE /\ exc' = exc
            /\ pc' = "suites"
            /\ queue' = SortedReports(reports, ltm, tz)
    /\ UNCHANGED <<tz, run, args, reports, props, ltm, combined, nr_files, out,
                   out_f, fs, merging, old_archive, new_archive, merges,
                   plvars, psvars>>

\* Lines 233-236: one pass of the loop.
PrintSuite ==
    /\ pc = "suites"
    /\ queue # <<>>
    /\ out' = out \o print_summary(Head(queue), verbose)
    /\ combined' = Append(combined, Head(queue))
    /\ nr_files' = nr_files + 1
    /\ queue' = Tail(queue)
    /\ UNCHANGED <<tz, pc, run, args, reports, props, ltm, verbose, out_f, exc, fs,
                   merging, old_archive, new_archive, merges, plvars, psvars>>

\* Lines 238-239.
PrintTotals ==
    /\ pc = "suites"
    /\ queue = <<>>
    /\ out' = out \o TotalsLine(reports)
    /\ pc' = "trailer"
    /\ UNCHANGED <<tz, run, args, reports, props, ltm, verbose, queue, combined,
                   nr_files, out_f, exc, fs, merging, old_archive, new_archive,
                   merges, plvars, psvars>>

\* Lines 241-243.
PrintTrailer ==
    /\ pc = "trailer"
    /\ LET r == print_trailer(props)
       IN /\ out' = out \o r.out
          /\ exc' = IF r.raised THEN "TypeError" ELSE exc
          /\ pc' = IF r.raised THEN "raised"
                   ELSE IF args.merge_fn THEN "merge_write" ELSE "return"
    /\ UNCHANGED <<tz, run, args, reports, props, ltm, verbose, queue, combined,
                   nr_files, out_f, fs, merging, old_archive, new_archive,
                   merges, plvars, psvars>>

\* A merge that writes the new archive over merge_fn itself.
MergeWriteBeginInPlace ==
    /\ pc = "merge_write"
    /\ merging' = TRUE
    /\ old_archive' = fs.canon
    /\ new_archive' = Complete(SuiteIds(combined))
    /\ fs' = [fs EXCEPT !.canon = Partial]
    /\ pc' = "merge_writing"
    /\ UNCHANGED <<tz, run, args, reports, props, ltm, verbose, queue, combined,
                   nr_files, out, out_f, exc, merges, plvars, psvars>>

\* Lines 244-245: combined.write opens merge_fn + '.new' for writing.
MergeWriteBegin ==
    /\ pc = "merge_write"
    /\ merging' = TRUE
    /\ old_archive' = fs.canon
    /\ new_archive' = Complete(SuiteIds(combined))
    /\ fs' = [fs EXCEPT !.new = Partial]
    /\ pc' = "merge_writing"
    /\ UNCHANGED <<tz, run, args, reports, props, ltm, verbose, queue, combined,
                   nr_files, out, out_f, exc, merges, plvars, psvars>>

\* Line 245: the write completes.
MergeWriteEnd ==
    /\ pc = "merge_writing"
    /\ fs' = [fs EXCEPT !.new = new_archive]
    /\ pc' = "merge_exists"
    /\ UNCHANGED <<tz, run, args, reports, props, ltm, verbose, queue, combined,
                   nr_files, out, out_f, exc, merging, old_archive, new_archive,
                   merges, plvars, psvars>>

\* Lines 246-247.
MergeRenameBak ==
    /\ pc = "merge_exists"
    /\ fs' = IF fs.canon.kind # "absent"
             THEN [fs EXCEPT !.bak = fs.canon, !.canon = Absent]
             ELSE fs
    /\ pc' = "merge_rename"
    /\ UNCHANGED <<tz, run, args, reports, props, ltm, verbose, queue, combined,
                   nr_files, out, out_f, exc, merging, old_archive, new_archive,
                   merges, plvars, psvars>>

\* Line 248.
MergeRenameNew ==
    /\ pc = "merge_rename"
    /\ fs' = [fs EXCEPT !.canon = fs.new, !.new = Absent]
    /\ merges' = Append(merges, [existed |-> old_archive.kind # "absent",
                                 ids |-> {reports[i].id : i \in 1..Len(reports)}])
    /\ pc' = "return"
    /\ UNCHANGED <<tz, run, args, reports, props, ltm, verbose, queue, combined,
                   nr_files, out, out_f, exc, merging, old_archive, new_archive,
                   plvars, psvars>>

\* An I/O failure in the merge step (lines 245-248): the open of
\* merge_fn + '.new' fails before the file is made, or the write fails part
\* way (IOError), or a rename fails (OSError; that of line 247 is only made
\* when merge_fn exists).  The operation has no further effect and its
\* exception leaves gen_results_summary.
MergeFail ==
    /\ \/ pc \in {"merge_write", "merge_writing", "merge_rename"}
       \/ pc = "merge_exists" /\ fs.canon.kind # "absent"
    /\ exc' = IF pc \in {"merge_write", "merge_writing"} THEN "IOError"
              ELSE "OSError"
    /\ pc' = "raised"
    /\ UNCHANGED <<tz, run, args, reports, props, ltm, verbose, queue, combined,
                   nr_files, out, out_f, fs, merging, old_archive, new_archive,
                   merges, plvars, psvars>>

\* Line 250.  The code has no out_f.close(): on return the last reference to
\* the file object is dropped, and whether that closes the file at once
\* depends on the interpreter's memory management.
Return(finalized) ==
    /\ pc = "return"
    /\ out_f' = IF out_f = "open" /\ finalized THEN "closed" ELSE out_f
    /\ pc' = "done"
    /\ UNCHANGED <<tz, run, args, reports, props, ltm, verbose, queue, combined,
                   nr_files, out, exc, fs, merging, old_archive, new_archive,
                   merges, plvars, psvars>>

\* The process dies (power loss, kill) at any point of the call.
Crash ==
    /\ pc \in Running
    /\ pc' = "crashed"
    /\ UNCHANGED <<tz, run, args, reports, props, ltm, verbose, queue, combined,
                   nr_files, out, out_f, exc, fs, merging, old_archive,
                   new_archive, merges, plvars, psvars>>

\* The tool is started again on the same archive path, by a later process.
Restart ==
    /\ pc \in Finished
    /\ run < MaxRuns
    /\ pc' = "idle"
    /\ args' = [suites |-> <<>>, marker |-> [present |-> FALSE, lines |-> <<>>],
                output_fn |-> FALSE, merge_fn |-> FALSE, verbose |-> FALSE,
                fs0 |-> [canon |-> Absent, bak |-> Absent, new |-> Absent]]
    /\ reports' = <<>> /\ props' = None /\ ltm' = FALSE /\ verbose' = FALSE
    /\ queue' = <<>> /\ combined' = <<>> /\ nr_files' = 0 /\ out' = <<>>
    /\ out_f' = "stdout" /\ exc' = "none" /\ merging' = FALSE
    /\ old_archive' = Absent /\ new_archive' = Absent
    /\ UNCHANGED <<tz, run, fs, merges, plvars, psvars>>

PlIdle == /\ pl = None /\ pl_init = None /\ pl_marker = <<>> /\ pl_once = None
          /\ pl_n = 0 /\ pl_key = <<>> /\ pl_before = None /\ pl_op = "none"

PsIdle == /\ ps_suite = Suite1 /\ ps_verbose = FALSE /\ ps_out = <<>>
          /\ ps_done = FALSE

CallIdle ==
    /\ pc = "idle" /\ run = 0
    /\ args = [suites |-> <<>>, marker |-> [present |-> FALSE, lines |-> <<>>],
               output_fn |-> FALSE, merge_fn |-> FALSE, verbose |-> FALSE,
               fs0 |-> [canon |-> Absent, bak |-> Absent, new |-> Absent]]
    /\ reports = <<>> /\ props = None /\ ltm = FALSE /\ verbose = FALSE
    /\ queue = <<>> /\ combined = <<>> /\ nr_files = 0 /\ out = <<>>
    /\ out_f = "stdout" /\ exc = "none" /\ merging = FALSE
    /\ old_archive = Absent /\ new_archive = Absent
    /\ merges = <<>>

Init ==
    /\ tz \in Zones
    /\ CallIdle
    /\ fs \in InitialFs
    /\ PlIdle
    /\ PsIdle

\* A call with any results directory and any arguments.
Invoke ==
    /\ pc = "idle"
    /\ \E s \in SuiteSeqs, m \in Markers, o \in BOOLEAN, g \in BOOLEAN,
          v \in BOOLEAN : Call(s, m, o, g, v)

Next ==
    \/ Invoke
    \/ OpenOutput
    \/ CheckForLtm
    \/ PrintHeader
    \/ SortSuites
    \/ PrintSuite
    \/ PrintTotals
    \/ PrintTrailer
    \/ MergeWriteBegin
    \/ MergeWriteEnd
    \/ MergeRenameBak
    \/ MergeRenameNew
    \/ MergeFail
    \/ \E f \in BOOLEAN : Return(f)
    \/ Crash

Spec == Init /\ [][Next]_vars

\* Successive calls that merge into the same archive path.
NoMarker == [present |-> FALSE, lines |-> <<>>]

\* A call that merges into the archive path: no marker file, the report on
\* standard output, verbose not requested.
InvokeMerge ==
    /\ pc = "idle"
    /\ \E s \in SuiteSeqs : Call(s, NoMarker, FALSE, TRUE, FALSE)

NextMerge ==
    \/ InvokeMerge
    \/ Restart
    \/ OpenOutput
    \/ CheckForLtm
    \/ PrintHeader
    \/ SortSuites
    \/ PrintSuite
    \/ PrintTotals
    \/ PrintTrailer
    \/ MergeWriteBegin
    \/ MergeWriteEnd
    \/ MergeRenameBak
    \/ MergeRenameNew
    \/ MergeFail
    \/ \E f \in BOOLEAN : Return(f)
    \/ Crash

SpecMerge == Init /\ [][NextMerge]_vars

(***************************************************************************)
(* The property list operations on their own: remove_properties and        *)
(* check_for_ltm applied to drawn lists.                                   *)
(***************************************************************************)
K_K == <<"K">>
V_a == <<"a">>
V_v == <<"v">>

PropEntries == {Property(K_K, V_a), Property(K_K, V_v),
                Property(K_GCE_ID, V_a), Property(K_FSTESTCFG, V_a)}

PropNames == {K_K, K_GCE_ID, K_FSTESTCFG}

GoodLines == {Line_Kv, Line_Kw, Line_Gce}

InitProps ==
    /\ pl \in {None} \cup {Properties(l) : l \in SeqsUpTo(PropEntries, MaxProps)}
    /\ pl_init = pl
    /\ pl_marker \in SeqsUpTo(GoodLines, MaxMarkerLines)
    /\ pl_once = None
    /\ pl_n = 0
    /\ pl_key = <<>>
    /\ pl_before = None
    /\ pl_op = "none"
    /\ tz = "UTC"
    /\ CallIdle
    /\ fs = [canon |-> Absent, bak |-> Absent, new |-> Absent]
    /\ PsIdle

\* remove_properties(props, key) on the drawn list.
RemoveProperties(key) ==
    /\ pl_op = "none"
    /\ pl_before' = pl
    /\ pl_key' = key
    /\ pl' = remove_properties(pl, key)
    /\ pl_op' = "remove"
    /\ UNCHANGED <<pl_init, pl_marker, pl_once, pl_n, callvars, psvars>>

\* check_for_ltm(results_dir, props) on the current list, the marker file
\* being present with the drawn lines; pl_op is "raised" when it raises.
ApplyMarker ==
    /\ pl_op \in {"none", "marker"}
    /\ pl_n < 2
    /\ LET r == check_for_ltm([present |-> TRUE, lines |-> pl_marker], pl)
       IN /\ pl' = r.props
          /\ pl_op' = IF r.exc # "none" THEN "raised" ELSE "marker"
    /\ pl_once' = IF pl_n = 0 THEN pl' ELSE pl_once
    /\ pl_n' = pl_n + 1
    /\ UNCHANGED <<pl_init, pl_marker, pl_key, pl_before, callvars, psvars>>

NextProps ==
    \/ \E key \in PropNames : RemoveProperties(key)
    \/ ApplyMarker

SpecProps == InitProps /\ [][NextProps]_vars

(***************************************************************************)
(* print_summary on its own, applied to a drawn suite whose counters agree *)
(* with its cases.                                                         *)
(***************************************************************************)
LongName == Rep("x", 20)
LongerName == Rep("y", 30)

CaseSet == {Case(n, r, 1) : n \in {LongName, LongerName},
                            r \in {"Pass", "Failure", "Error"}}

RECURSIVE CountResult(_, _)
CountResult(cases, r) ==
    IF cases = <<>> THEN 0
    ELSE (IF Head(cases).result = r THEN 1 ELSE 0) + CountResult(Tail(cases), r)

SuiteOf(cases) ==
    [id |-> "t", hostname |-> H_vm1, timestamp |-> TS_After, time |-> Len(cases),
     tests |-> Len(cases), skipped |-> CountResult(cases, "Skipped"),
     failures |-> CountResult(cases, "Failure"),
     errors |-> CountResult(cases, "Error"),
     props |-> Properties(<<Property(K_TESTCFG, V_4k)>>),
     cases |-> cases]

InitSummary ==
    /\ ps_suite \in {SuiteOf(c) : c \in SeqsUpTo(CaseSet, MaxCases)}
    /\ ps_verbose \in BOOLEAN
    /\ ps_out = <<>>
    /\ ps_done = FALSE
    /\ tz = "UTC"
    /\ CallIdle
    /\ fs = [canon |-> Absent, bak |-> Absent, new |-> Absent]
    /\ PlIdle

\* print_summary(out_f, testsuite, verbose) on the drawn suite.
PrintSummary ==
    /\ ~ps_done
    /\ ps_out' = print_summary(ps_suite, ps_verbose)
    /\ ps_done' = TRUE
    /\ UNCHANGED <<ps_suite, ps_verbose, callvars, plvars>>

NextSummary == PrintSummary

SpecSummary == InitSummary /\ [][NextSummary]_vars

(***************************************************************************)
(* Properties checked.                                                     *)
(***************************************************************************)
\* The call has printed every suite and has not been cut short.
AllPrinted ==
    \/ pc \in {"trailer", "merge_write", "merge_writing",
               "merge_exists", "merge_rename", "return"}
    \/ pc = "done" /\ reports # <<>>

Malformed(marker) ==
    marker.present /\ \E i \in 1..Len(marker.lines) : ~HasSep(marker.lines[i])

\* The sum of the totals of a set of suite ids.
RECURSIVE TotalsOfIds(_)
TotalsOfIds(S) ==
    IF S = {} THEN <<0, 0, 0, 0, 0>>
    ELSE LET i == CHOOSE x \in S : TRUE
             t == SuiteById(i)
             r == TotalsOfIds(S \ {i})
         IN <<t.tests + r[1], t.skipped + r[2], t.failures + r[3],
              t.errors + r[4], t.time + r[5]>>

Range(s) == {s[i] : i \in 1..Len(s)}

\* C1: during the archive merge step, whatever crash or I/O failure ends it,
\* merge_fn never holds a partially written archive: it holds the old
\* archive, or the new one, or it is absent while the old archive is at
\* .bak and the complete new archive at .new.
C1_CanonicalNeverPartial ==
    /\ fs.canon.kind # "partial"
    /\ merging =>
          \/ fs.canon = old_archive
          \/ fs.canon = new_archive
          \/ fs.canon = Absent /\ fs.bak = old_archive /\ fs.new = new_archive

\* C1 witness: the process died between the two renames of a merge over an
\* existing archive.
C1_Witness ==
    /\ pc = "crashed" /\ merging
    /\ old_archive.kind = "complete"
    /\ fs.canon = Absent /\ fs.bak = old_archive /\ fs.new = new_archive

\* C2: a call merging suite set A into an absent merge_fn leaves there an
\* archive whose totals are A's; a following call merging B leaves an archive
\* whose totals are those of A union B, and a .bak file exists.
C2_MergeRoundTrip ==
    (pc \in {"return", "done"} /\ Len(merges) >= 1 /\ ~merges[1].existed
        /\ args.merge_fn /\ reports # <<>>)
    => /\ Len(merges) = 1 =>
            TotalsOfIds(Range(fs.canon.suites)) = TotalsOfIds(merges[1].ids)
       /\ Len(merges) = 2 =>
            /\ TotalsOfIds(Range(fs.canon.suites))
                   = TotalsOfIds(merges[1].ids \cup merges[2].ids)
            /\ fs.bak.kind = "complete"

\* C3: suites with distinct timestamps are printed in ascending timestamp
\* order when there is no marker file, and in ascending hostname order
\* when there is one, whatever their timestamps.
C3_ReportOrder ==
    AllPrinted =>
        /\ Len(combined) = Len(reports)
        /\ Range(combined) = Range(reports)
        /\ \A i, j \in 1..Len(combined) : i < j =>
               IF args.marker.present
               THEN ~StrLess(combined[j].hostname, combined[i].hostname)
               ELSE StrLess(combined[i].timestamp, combined[j].timestamp)

RECURSIVE TestsOfIds(_)
TestsOfIds(S) ==
    IF S = {} THEN 0
    ELSE LET i == CHOOSE x \in S : TRUE
         IN SuiteById(i).tests + TestsOfIds(S \ {i})

RECURSIVE Rendered(_, _)
Rendered(s, verb) ==
    IF s = <<>> THEN <<>>
    ELSE print_summary(Head(s), verb) \o Rendered(Tail(s), verb)

ExpectedVerbose ==
    IF TestsOfIds({reports[i].id : i \in 1..Len(reports)}) < 30
    THEN TRUE ELSE args.verbose

\* C5: the suites are rendered in verbose mode when the sum of their tests
\* counters is below 30, and with the requested flag otherwise.
C5_VerboseForcing ==
    (pc = "suites" \/ AllPrinted) =>
        /\ verbose = ExpectedVerbose
        /\ LET body == print_header(props) \o Rendered(combined, ExpectedVerbose)
           IN Len(out) >= Len(body) /\ SubSeq(out, 1, Len(body)) = body

\* C5 witness: a run of exactly 30 tests was printed in compact mode as
\* requested.
C5_Witness ==
    /\ pc = "done" /\ Len(combined) = 2
    /\ total_tests(reports) = 30
    /\ ~args.verbose /\ ~verbose

\* C6: with a suite loaded and a marker line without ': ', the call ends
\* with the error and nothing of the report written, the archive untouched.
C6_MalformedMarkerAborts ==
    (reports # <<>> /\ Malformed(args.marker)
        /\ pc \notin {"idle", "open", "ltm", "crashed"})
    => /\ pc = "raised" /\ exc \in {"ValueError", "AttributeError"}
       /\ out = <<>>
       /\ fs = args.fs0 /\ ~merging

\* C6 witness: the call was aborted by the second line of the marker, after
\* the first line had been applied, with a named output file.
C6_Witness ==
    /\ pc = "raised" /\ exc = "ValueError" /\ out = <<>>
    /\ args.marker.lines = <<Line_Run, Line_Bad>>
    /\ args.output_fn
    /\ get_property(props, K_TESTRUNID).value = SplitValue(Line_Run)

\* C7: with a named output path the file is never opened when no suite is
\* loaded; otherwise it is open before the first write and it is closed
\* when the call returns and when it aborts with an error.
C7_OutputHandleLifetime ==
    (pc # "idle" /\ args.output_fn) =>
        /\ reports = <<>> => out_f = "stdout"
        /\ out # <<>> => out_f # "stdout"
        /\ (reports # <<>> /\ pc \in {"done", "raised"}) => out_f = "closed"

(***************************************************************************)
(* Properties of the property list operations, under SpecProps.            *)
(***************************************************************************)
RECURSIVE Without(_, _)
Without(ps, key) ==
    IF ps = <<>> THEN <<>>
    ELSE (IF Head(ps).name = key THEN <<>> ELSE <<Head(ps)>>)
         \o Without(Tail(ps), key)

HasName(ps, key) == \E i \in 1..Len(ps) : ps[i].name = key

\* C4: applying the marker twice in a row leaves the same property list as
\* applying it once.
C4_MarkerIdempotent == (pl_n = 2 /\ ~pl_init.none) => pl = pl_once

\* C8: after remove_properties(props, name) no entry has that name and the
\* other entries are unchanged, in their order; after the marker is applied
\* no 'GCE ID' and no 'FSTESTCFG' entry remains.
C8_RemoveAll ==
    /\ (pl_op = "remove" /\ ~pl_before.none) =>
          /\ ~HasName(pl.items, pl_key)
          /\ pl = Properties(Without(pl_before.items, pl_key))
    /\ pl_op = "marker" =>
          ~HasName(pl.items, K_GCE_ID) /\ ~HasName(pl.items, K_FSTESTCFG)

(***************************************************************************)
(* Properties of print_summary, under SpecSummary.                         *)
(***************************************************************************)
Label(type_label) == <<" ", " ">> \o type_label \o <<":", " ">>

HasChunk(chunks, c) == \E i \in 1..Len(chunks) : chunks[i] = c

\* C9: in compact mode the 'Failures' list is written exactly when the
\* suite's failures count is > 0 and the 'Errors' list exactly when its
\* errors count is > 0, each whatever the other count.
C9_CompactLists ==
    (ps_done /\ ~ps_verbose) =>
        /\ HasChunk(ps_out, Label(L_Failures)) <=> ps_suite.failures > 0
        /\ HasChunk(ps_out, Label(L_Errors)) <=> ps_suite.errors > 0

\* The chunks after the summary line, which is the first to end a line.
SummaryEnd(chunks) ==
    CHOOSE k \in 1..Len(chunks) :
        /\ chunks[k][Len(chunks[k])] = "\n"
        /\ \A j \in 1..(k - 1) : chunks[j][Len(chunks[j])] # "\n"

\* Walks the chunks of the name lists from chunk i on, col being the column
\* the output is at: a name preceded by a newline and indent must not have
\* fitted, and a name written on the same line must have fitted.
RECURSIVE WrapsAtColumn(_, _, _)
WrapsAtColumn(chunks, i, col) ==
    IF i > Len(chunks) THEN TRUE
    ELSE LET c == chunks[i] IN
         IF c = NewlineIndent
         THEN /\ i < Len(chunks)
              /\ col + Len(chunks[i + 1]) > 76
              /\ WrapsAtColumn(chunks, i + 2, 4 + Len(chunks[i + 1]))
         ELSE IF c = <<"\n">> THEN WrapsAtColumn(chunks, i + 1, 0)
         ELSE IF Head(c) = " " THEN WrapsAtColumn(chunks, i + 1, col + Len(c))
         ELSE /\ col + Len(c) <= 76
              /\ WrapsAtColumn(chunks, i + 1, col + Len(c))

\* C10: print_tests starts a new indented line before a name exactly when
\* the name and its blank would take the output column past 76.
C10_WrapAtColumn ==
    (ps_done /\ ~ps_verbose) =>
        WrapsAtColumn(ps_out, SummaryEnd(ps_out) + 1, 0)

====
